---- MODULE Spec2Model ----
(***************************************************************************)
(* Model of numerator (src/numerator/main.py): a command-line utility that *)
(* renames the files of one directory so that the first digit run of each  *)
(* name is zero-padded to a common width.                                  *)
(*                                                                         *)
(* Strings are sequences of one-character strings.  The filesystem is the  *)
(* set of entries of the one target directory.                             *)
(***************************************************************************)
EXTENDS Integers, Sequences, FiniteSets, TLC

VARIABLES
    pathExists,     \* does the --path argument (or the cwd) exist on disk
    replaceArgs,    \* the raw values of the --replace occurrences, in order
    pc,             \* position of the program: see PcValues
    exitCode,       \* process exit status; -1 while running
    config_replace, \* Config.replace: dict as a sequence of <<key, value>>
    disk,           \* directory entries: [name, orig, isfile]
    disk0,          \* the directory as it was when the program started
    files,          \* Folder.files: sequence of File records
    majority_cache, \* cached_property Folder.majority: <<>> or <<value>>
    padding_cache,  \* cached_property Folder.padding: <<>> or <<value>>
    idx,            \* run(): index of the next file of the for loop
    reports,        \* callback invocations of run(): <<old, new>> pairs
    stdout,         \* lines printed by get_config() and main()
    attempts,       \* filesystem log: every rename call, <<src, dst, outcome>>
    arg_string,     \* add_padding(): argument `string`
    arg_padding,    \* add_padding(): argument `padding`
    ret             \* return value of the last direct call: <<>> or <<value>>

vars == <<pathExists, replaceArgs, pc, exitCode, config_replace, disk, disk0,
          files, majority_cache, padding_cache, idx, reports, stdout,
          attempts, arg_string, arg_padding, ret>>

----------------------------------------------------------------------------
(* Bounds of the model *)

\* longest string given to add_padding in SpecPad
MaxLen == 4
\* largest padding given to add_padding in SpecPad
MaxPad == 4
\* most directory entries in the target directory
MaxFiles == 3
\* most --replace occurrences on the command line
MaxReplaceArgs == 2
\* most direct calls of File.rename_to_pattern in SpecFile
MaxCalls == 3
\* most changes made to the directory by other programs in SpecFolder
MaxEnvChanges == 1

----------------------------------------------------------------------------
(* Strings *)

Digits == {"0", "1", "2", "3", "4", "5", "6", "7", "8", "9"}

Max(a, b) == IF a >= b THEN a ELSE b

RECURSIVE StrMul(_, _)
\* Python's  c * n  for a one-character string c: empty when n <= 0
StrMul(c, n) == IF n <= 0 THEN <<>> ELSE <<c>> \o StrMul(c, n - 1)

\* str[a:b] with 0-based half-open Python indices, 0 <= a, b <= len
Slice(s, a, b) == IF b <= a THEN <<>> ELSE SubSeq(s, a + 1, b)

\* str.casefold() on the alphabet of the model
CaseFoldChar(c) == CASE c = "J" -> "j"
                     [] c = "T" -> "t"
                     [] c = "A" -> "a"
                     [] OTHER -> c

RECURSIVE CaseFold(_)
CaseFold(s) ==
    IF s = <<>> THEN <<>> ELSE <<CaseFoldChar(Head(s))>> \o CaseFold(Tail(s))

\* does s start with the string p
StartsWith(s, p) == Len(s) >= Len(p) /\ SubSeq(s, 1, Len(p)) = p

RECURSIVE StrReplace(_, _, _)
\* str.replace(source, target): every non-overlapping occurrence, left to
\* right; an empty source matches before every character and at the end
StrReplace(s, source, target) ==
    IF source = <<>>
    THEN IF s = <<>> THEN target
         ELSE target \o <<Head(s)>> \o StrReplace(Tail(s), source, target)
    ELSE IF s = <<>> THEN <<>>
    ELSE IF StartsWith(s, source)
         THEN target \o StrReplace(SubSeq(s, Len(source) + 1, Len(s)),
                                   source, target)
         ELSE <<Head(s)>> \o StrReplace(Tail(s), source, target)

RECURSIVE LStrip(_, _)
LStrip(s, c) == IF s # <<>> /\ Head(s) = c THEN LStrip(Tail(s), c) ELSE s

RECURSIVE RStrip(_, _)
RStrip(s, c) ==
    IF s # <<>> /\ s[Len(s)] = c THEN RStrip(SubSeq(s, 1, Len(s) - 1), c) ELSE s

\* str.strip(c) for a one-character argument
Strip(s, c) == RStrip(LStrip(s, c), c)

RECURSIVE SplitFrom(_, _, _)
\* str.split(sep) for a one-character separator: cur is the part being read
SplitFrom(s, sep, cur) ==
    IF s = <<>> THEN <<cur>>
    ELSE IF Head(s) = sep
         THEN <<cur>> \o SplitFrom(Tail(s), sep, <<>>)
         ELSE SplitFrom(Tail(s), sep, Append(cur, Head(s)))

Split(s, sep) == SplitFrom(s, sep, <<>>)

\* 1-based index of the last c in s (str.rfind + 1), 0 when absent
RFind(s, c) ==
    IF \E i \in 1..Len(s) : s[i] = c
    THEN CHOOSE i \in 1..Len(s) :
             s[i] = c /\ \A j \in (i + 1)..Len(s) : s[j] # c
    ELSE 0

RECURSIVE Perms(_)
\* every ordering of the elements of a finite set
Perms(S) ==
    IF S = {} THEN {<<>>}
    ELSE UNION {{<<x>> \o p : p \in Perms(S \ {x})} : x \in S}

RECURSIVE SeqsUpTo(_, _)
\* the sequences over S of length at most n
SeqsUpTo(S, n) ==
    IF n = 0 THEN {<<>>}
    ELSE LET shorter == SeqsUpTo(S, n - 1)
         IN  shorter \cup {Append(q, x) : q \in shorter, x \in S}

----------------------------------------------------------------------------
(* DIGITS = re.compile(r'[^0123456789]*([0123456789]+).*') *)

\* 0-based start of group 1 of DIGITS.match(s), or -1 when there is no match:
\* the greedy [^0-9]* stops at the first digit of s
MatchStart(s) ==
    IF \E i \in 1..Len(s) : s[i] \in Digits
    THEN (CHOOSE i \in 1..Len(s) :
              /\ s[i] \in Digits
              /\ \A j \in 1..(i - 1) : s[j] \notin Digits) - 1
    ELSE -1

\* 0-based end (exclusive) of group 1: the greedy [0-9]+ takes the whole run
MatchEnd(s) ==
    LET b == MatchStart(s) + 1
    IN  CHOOSE e \in b..Len(s) :
              /\ \A j \in b..e : s[j] \in Digits
              /\ (e = Len(s) \/ s[e + 1] \notin Digits)

\* add_padding() with the zero count taken as the padding itself
add_padding_nodelta(string, padding) ==
    IF MatchStart(string) = -1
    THEN string
    ELSE LET left == MatchStart(string)
             right == MatchEnd(string)
             left_part == Slice(string, 0, left)
             right_part == Slice(string, right, Len(string))
             body == Slice(string, left, right)
         IN  left_part \o StrMul("0", padding) \o body \o right_part

add_padding(string, padding) ==
    IF MatchStart(string) = -1
    THEN string
    ELSE LET left == MatchStart(string)
             right == MatchEnd(string)
             left_part == Slice(string, 0, left)
             right_part == Slice(string, right, Len(string))
             body == Slice(string, left, right)
             delta == padding - Len(body)
         IN  left_part \o StrMul("0", delta) \o body \o right_part

RECURSIVE calculate_padding_from(_, _)
calculate_padding_from(names, padding) ==
    IF names = <<>> THEN padding
    ELSE LET name == Head(names)
             next == IF MatchStart(name) # -1
                     THEN Max(padding, MatchEnd(name) - MatchStart(name))
                     ELSE padding
         IN  calculate_padding_from(Tail(names), next)

RECURSIVE calculate_padding_last(_)
\* calculate_padding() keeping the length met last instead of the largest
calculate_padding_last(names) ==
    IF names = <<>> THEN 0
    ELSE LET name == names[Len(names)]
         IN  IF MatchStart(name) # -1
             THEN MatchEnd(name) - MatchStart(name)
             ELSE calculate_padding_last(SubSeq(names, 1, Len(names) - 1))

calculate_padding(names) == calculate_padding_from(names, 0)

----------------------------------------------------------------------------
(* class File *)

\* File.__init__: the owning path is the one target directory throughout
File(filename) ==
    [filename |-> filename, old_filename |-> filename,
     new_filename |-> filename]

\* pathlib.PurePath.suffix of a bare file name: the last dot starts the
\* suffix unless it is the first or the last character of the name
PathSuffix(name) ==
    LET i == RFind(name, ".") - 1
    IN  IF 0 < i /\ i < Len(name) - 1
        THEN Slice(name, i, Len(name)) ELSE <<>>

\* pathlib.PurePath.stem of a bare file name
PathStem(name) ==
    LET i == RFind(name, ".") - 1
    IN  IF 0 < i /\ i < Len(name) - 1
        THEN Slice(name, 0, i) ELSE name

\* File.name (cached; a function of the never reassigned filename)
FileName(file) == PathStem(file.filename)

\* File.ext (cached; a function of the never reassigned filename)
FileExt(file) ==
    LET suffix == PathSuffix(file.filename)
    IN  IF StartsWith(suffix, <<".">>) THEN Tail(suffix) ELSE suffix

looks_like_target(file, majority) ==
    LET case_folded == CaseFold(FileExt(file))
    IN  case_folded # <<>> /\ case_folded = CaseFold(majority)

RECURSIVE ApplyReplace(_, _)
\* the loop  for source, target in replace.items()
ApplyReplace(name, replace) ==
    IF replace = <<>> THEN name
    ELSE ApplyReplace(StrReplace(name, Head(replace)[1], Head(replace)[2]),
                      Tail(replace))

get_new_filename(file, padding, replace) ==
    ApplyReplace(add_padding(file.old_filename, padding), replace)

----------------------------------------------------------------------------
(* class Folder *)

RECURSIVE CounterAdd(_, _)
\* Counter: counts in first-insertion order, as <<element, count>> pairs
CounterAdd(counter, e) ==
    IF counter = <<>> THEN << <<e, 1>> >>
    ELSE IF Head(counter)[1] = e
         THEN << <<e, Head(counter)[2] + 1>> >> \o Tail(counter)
         ELSE <<Head(counter)>> \o CounterAdd(Tail(counter), e)

RECURSIVE Counter(_)
Counter(elems) ==
    IF elems = <<>> THEN <<>>
    ELSE CounterAdd(Counter(SubSeq(elems, 1, Len(elems) - 1)),
                    elems[Len(elems)])

RECURSIVE MaxByCount(_, _)
\* max(items, key=count): the first item holding the largest count
MaxByCount(items, best) ==
    IF items = <<>> THEN best
    ELSE MaxByCount(Tail(items),
                    IF Head(items)[2] > best[2] THEN Head(items) ELSE best)

RECURSIVE MaxByCountLast(_, _)
\* as MaxByCount, but a later item with an equal count wins
MaxByCountLast(items, best) ==
    IF items = <<>> THEN best
    ELSE MaxByCountLast(Tail(items),
                    IF Head(items)[2] >= best[2] THEN Head(items) ELSE best)

\* Counter.most_common(1) that breaks ties towards the last extension
most_common_1_last(counter) ==
    IF counter = <<>> THEN <<>>
    ELSE <<MaxByCountLast(Tail(counter), Head(counter))>>

\* Counter.most_common(1): heapq.nlargest(1, ...) is max(), or [] when empty
most_common_1(counter) ==
    IF counter = <<>> THEN <<>>
    ELSE <<MaxByCount(Tail(counter), Head(counter))>>

RECURSIVE Extensions(_)
\* [file.ext.casefold() for file in self.files if file.ext.casefold()]
Extensions(fs) ==
    IF fs = <<>> THEN <<>>
    ELSE LET e == CaseFold(FileExt(Head(fs)))
         IN  (IF e # <<>> THEN <<e>> ELSE <<>>) \o Extensions(Tail(fs))

\* Folder.majority answering the empty extension when nothing was counted
ComputeMajority_default(fs) ==
    LET top == most_common_1(Counter(Extensions(fs)))
    IN  IF top = <<>> THEN << <<>> >> ELSE <<top[1][1]>>

\* Folder.majority computed afresh: <<value>>, or <<>> for the IndexError
\* of  most_common(1)[0]  on an empty counter
ComputeMajority(fs) ==
    LET top == most_common_1(Counter(Extensions(fs)))
    IN  IF top = <<>> THEN <<>> ELSE <<top[1][1]>>

RECURSIVE Stems(_)
\* [file.name for file in self.files]
Stems(fs) ==
    IF fs = <<>> THEN <<>> ELSE <<FileName(Head(fs))>> \o Stems(Tail(fs))

\* Folder.padding computed afresh
ComputePadding(fs) == calculate_padding(Stems(fs))

----------------------------------------------------------------------------
(* The filesystem: the entries of the target directory *)

NamesOf(d) == {e.name : e \in d}

EntryNamed(d, name) == CHOOSE e \in d : e.name = name

\* What one call of Path.rename(src -> dst) can do.  A missing source and a
\* destination that is a directory always raise.  Otherwise the call may
\* succeed, replacing an existing destination file (POSIX), or raise
\* (destination exists on Windows, permission denied, ...).
RenameOutcomes(d, src, dst) ==
    IF src \notin NamesOf(d) THEN {"error"}
    ELSE IF dst \in NamesOf(d) /\ ~EntryNamed(d, dst).isfile THEN {"error"}
    ELSE {"ok", "error"}

\* the directory after a successful rename
Renamed(d, src, dst) ==
    LET e == EntryNamed(d, src)
    IN  {x \in d : x.name # src /\ x.name # dst}
            \cup {[e EXCEPT !.name = dst]}

RECURSIVE ListFiles(_, _)
\* the loop of Folder.parse_contents over a listing: regular files only
ListFiles(d, listing) ==
    IF listing = <<>> THEN <<>>
    ELSE (IF EntryNamed(d, Head(listing)).isfile
          THEN <<File(Head(listing))>> ELSE <<>>)
         \o ListFiles(d, Tail(listing))

----------------------------------------------------------------------------
(* get_config *)

RECURSIVE DictSet(_, _, _)
\* dict[key] = value: an existing key keeps its position
DictSet(d, key, value) ==
    IF d = <<>> THEN << <<key, value>> >>
    ELSE IF Head(d)[1] = key THEN << <<key, value>> >> \o Tail(d)
         ELSE <<Head(d)>> \o DictSet(Tail(d), key, value)

\* the test of a --replace value that also lets more than two parts pass
BadReplaceValue_lt(each) == Len(Split(each, "=")) < 2

\* if len(parts) != 2
BadReplaceValue(each) == Len(Split(each, "=")) # 2

RECURSIVE ParseReplace(_, _)
\* the loop  for each in args.replace; the result is the outcome of
\* get_config: an exit code (0: returns a Config), the dict, the line printed
ParseReplace(values, replace) ==
    IF values = <<>> THEN [exit |-> 0, replace |-> replace, out |-> <<>>]
    ELSE LET each == Head(values)
             parts == Split(each, "=")
         IN  IF BadReplaceValue(each)
             THEN [exit |-> 1, replace |-> replace,
                   out |-> <<"Replace argument expects", each>>]
             ELSE LET key == Strip(Strip(parts[1], "'"), "\"")
                      value == Strip(Strip(parts[2], "'"), "\"")
                  IN  ParseReplace(Tail(values), DictSet(replace, key, value))

get_config(path_exists, replace_values) ==
    IF ~path_exists
    THEN [exit |-> 1, replace |-> <<>>, out |-> <<"Directory does not exist">>]
    ELSE ParseReplace(replace_values, <<>>)

----------------------------------------------------------------------------
(* main() and run() *)

\* reading a cached_property: the stored value, else the computed one
ReadPadding == IF padding_cache # <<>> THEN padding_cache
               ELSE <<ComputePadding(files)>>

ReadMajority == IF majority_cache # <<>> THEN majority_cache
                ELSE ComputeMajority(files)

\* the report of run() naming the new name twice
ReportLine_new(file) == <<file.new_filename, file.new_filename>>

\* f'\tRenamed {file.old_filename} to {file.new_filename}'
ReportLine(file) == <<file.old_filename, file.new_filename>>

\* main, line 244: get_config ends the process with sys.exit(1)
GetConfigExit ==
    /\ pc = "start"
    /\ get_config(pathExists, replaceArgs).exit = 1
    /\ pc' = "exit"
    /\ exitCode' = 1
    /\ stdout' = Append(stdout, get_config(pathExists, replaceArgs).out)
    /\ UNCHANGED <<pathExists, replaceArgs, config_replace, disk, disk0, files,
                   majority_cache, padding_cache, idx, reports, attempts,
                   arg_string, arg_padding, ret>>

\* main, line 244: get_config returns a Config
GetConfigOk ==
    /\ pc = "start"
    /\ get_config(pathExists, replaceArgs).exit = 0
    /\ pc' = "configured"
    /\ config_replace' = get_config(pathExists, replaceArgs).replace
    /\ UNCHANGED <<pathExists, replaceArgs, exitCode, disk, disk0, files,
                   majority_cache, padding_cache, idx, reports, stdout,
                   attempts, arg_string, arg_padding, ret>>

\* main, line 245: get_target_folder; os.listdir answers in any order
GetTargetFolder ==
    /\ pc = "configured"
    /\ \E listing \in Perms(NamesOf(disk)) :
           files' = ListFiles(disk, listing)
    /\ pc' = "scanned"
    /\ UNCHANGED <<pathExists, replaceArgs, exitCode, config_replace, disk,
                   disk0, majority_cache, padding_cache, idx, reports, stdout,
                   attempts, arg_string, arg_padding, ret>>

\* main, lines 246-254: read the padding, print the status line, enter run
MainStatus ==
    /\ pc = "scanned"
    /\ padding_cache' = ReadPadding
    /\ stdout' = Append(stdout, <<"Renaming files", ReadPadding[1],
                                  config_replace>>)
    /\ pc' = "run"
    /\ idx' = 1
    /\ UNCHANGED <<pathExists, replaceArgs, exitCode, config_replace, disk,
                   disk0, files, majority_cache, reports, attempts,
                   arg_string, arg_padding, ret>>

\* run, line 264: the first read of Folder.majority raises IndexError
RunNoMajority ==
    /\ pc = "run" /\ idx <= Len(files)
    /\ ReadMajority = <<>>
    /\ pc' = "crashed"
    /\ exitCode' = 1
    /\ UNCHANGED <<pathExists, replaceArgs, config_replace, disk, disk0, files,
                   majority_cache, padding_cache, idx, reports, stdout,
                   attempts, arg_string, arg_padding, ret>>

\* run, line 264: the file does not look like a target
RunSkip ==
    /\ pc = "run" /\ idx <= Len(files)
    /\ ReadMajority # <<>>
    /\ ~looks_like_target(files[idx], ReadMajority[1])
    /\ majority_cache' = ReadMajority
    /\ idx' = idx + 1
    /\ UNCHANGED <<pathExists, replaceArgs, pc, exitCode, config_replace, disk,
                   disk0, files, padding_cache, reports, stdout, attempts,
                   arg_string, arg_padding, ret>>

\* run, lines 264-270: rename_to_pattern finds the name unchanged
RunUnchanged ==
    /\ pc = "run" /\ idx <= Len(files)
    /\ ReadMajority # <<>>
    /\ looks_like_target(files[idx], ReadMajority[1])
    /\ get_new_filename(files[idx], ReadPadding[1], config_replace)
           = files[idx].old_filename
    /\ majority_cache' = ReadMajority
    /\ padding_cache' = ReadPadding
    /\ idx' = idx + 1
    /\ UNCHANGED <<pathExists, replaceArgs, pc, exitCode, config_replace, disk,
                   disk0, files, reports, stdout, attempts, arg_string,
                   arg_padding, ret>>

\* run, lines 264-273: rename_to_pattern renames the file, run reports it
RunRenamed ==
    /\ pc = "run" /\ idx <= Len(files)
    /\ ReadMajority # <<>>
    /\ looks_like_target(files[idx], ReadMajority[1])
    /\ LET file == files[idx]
           new_filename == get_new_filename(file, ReadPadding[1],
                                            config_replace)
           renamed == [file EXCEPT !.new_filename = new_filename]
       IN  /\ new_filename # file.old_filename
           /\ "ok" \in RenameOutcomes(disk, file.old_filename, new_filename)
           /\ files' = [files EXCEPT ![idx] = renamed]
           /\ disk' = Renamed(disk, file.old_filename, new_filename)
           /\ attempts' = Append(attempts,
                                 <<file.old_filename, new_filename, "ok">>)
           /\ reports' = Append(reports, ReportLine(renamed))
    /\ majority_cache' = ReadMajority
    /\ padding_cache' = ReadPadding
    /\ idx' = idx + 1
    /\ UNCHANGED <<pathExists, replaceArgs, pc, exitCode, config_replace,
                   disk0, stdout, arg_string, arg_padding, ret>>

\* run, lines 264-268: Path.rename raises inside rename_to_pattern, after
\* line 129 has assigned new_filename; nothing catches the exception
RunRenameFails ==
    /\ pc = "run" /\ idx <= Len(files)
    /\ ReadMajority # <<>>
    /\ looks_like_target(files[idx], ReadMajority[1])
    /\ LET file == files[idx]
           new_filename == get_new_filename(file, ReadPadding[1],
                                            config_replace)
       IN  /\ new_filename # file.old_filename
           /\ "error" \in RenameOutcomes(disk, file.old_filename,
                                          new_filename)
           /\ files' = [files EXCEPT ![idx].new_filename = new_filename]
           /\ attempts' = Append(attempts,
                                 <<file.old_filename, new_filename, "error">>)
    /\ majority_cache' = ReadMajority
    /\ padding_cache' = ReadPadding
    /\ pc' = "crashed"
    /\ exitCode' = 1
    /\ UNCHANGED <<pathExists, replaceArgs, config_replace, disk, disk0, idx,
                   reports, stdout, arg_string, arg_padding, ret>>

\* run returns once the for loop is exhausted; main returns, exit status 0
RunDone ==
    /\ pc = "run" /\ idx > Len(files)
    /\ pc' = "done"
    /\ exitCode' = 0
    /\ UNCHANGED <<pathExists, replaceArgs, config_replace, disk, disk0, files,
                   majority_cache, padding_cache, idx, reports, stdout,
                   attempts, arg_string, arg_padding, ret>>

----------------------------------------------------------------------------
(* The program run on a directory: SpecMain *)

\* file names the target directory is populated from
FileNames ==
    { <<"1", ".", "j">>,            \* 1.j
      <<"1", "1", ".", "j">>,       \* 11.j
      <<"0", "1", ".", "j">>,       \* 01.j
      <<"a", "1", ".", "J">>,       \* a1.J
      <<"1", ".", "t">>,            \* 1.t
      <<"a", ".", "t", "4">>,       \* a.t4
      <<"1", "a">>,                 \* 1a
      <<".", "j">> }                \* .j

\* names of subdirectories of the target directory
DirNames == { <<"1", "1", "1", ".", "t">> }      \* 111.t

Entries ==
    {[name |-> n, orig |-> n, isfile |-> TRUE] : n \in FileNames}
        \cup {[name |-> n, orig |-> n, isfile |-> FALSE] : n \in DirNames}

\* raw --replace values
ReplaceValues ==
    { <<"'", "a", "'", "=", "\"", "1", "\"">>,   \* 'a'="1"
      <<"j", "=", "t">>,                         \* j=t
      <<"a">>,                                   \* a
      <<"a", "=", "1", "=", "1">> }              \* a=1=1

Directories == {d \in SUBSET Entries : Cardinality(d) <= MaxFiles}

InitCommon ==
    /\ pc = "start"
    /\ exitCode = -1
    /\ config_replace = <<>>
    /\ disk0 = disk
    /\ files = <<>>
    /\ majority_cache = <<>>
    /\ padding_cache = <<>>
    /\ idx = 0
    /\ reports = <<>>
    /\ stdout = <<>>
    /\ attempts = <<>>
    /\ arg_string = <<>>
    /\ arg_padding = 0
    /\ ret = <<>>

InitMain ==
    /\ pathExists \in BOOLEAN
    /\ replaceArgs \in SeqsUpTo(ReplaceValues, MaxReplaceArgs)
    /\ disk \in Directories
    /\ InitCommon

NextMain ==
    \/ GetConfigExit
    \/ GetConfigOk
    \/ GetTargetFolder
    \/ MainStatus
    \/ RunNoMajority
    \/ RunSkip
    \/ RunUnchanged
    \/ RunRenamed
    \/ RunRenameFails
    \/ RunDone

SpecMain == InitMain /\ [][NextMain]_vars

----------------------------------------------------------------------------
(* Properties of the program run *)

HasDigit(s) == \E i \in 1..Len(s) : s[i] \in Digits

\* length of the first maximal digit run of a string holding a digit
FirstRunLen(s) ==
    LET p == CHOOSE i \in 1..Len(s) :
                 s[i] \in Digits /\ \A j \in 1..(i - 1) : s[j] \notin Digits
        q == CHOOSE j \in p..Len(s) :
                 /\ \A k \in p..j : s[k] \in Digits
                 /\ (j = Len(s) \/ s[j + 1] \notin Digits)
    IN  q - p + 1

\* the case-folded extension of a bare name
FoldedExt(name) == CaseFold(FileExt(File(name)))

\* run has returned, the configuration held no replacement
DoneNoReplace == pc = "done" /\ config_replace = <<>> /\ files # <<>>

\* C1 (as claimed): after a run that completes with an empty replacement
\* map, every regular file on disk whose extension matches the majority
\* extension and whose name holds a digit has a first digit run whose length
\* is the folder's padding.
C1_UniformWidthAnyDigit ==
    DoneNoReplace =>
        \A e \in disk :
            (/\ e.isfile
             /\ FoldedExt(e.name) # <<>>
             /\ FoldedExt(e.name) = majority_cache[1]
             /\ HasDigit(e.name))
                => FirstRunLen(e.name) = padding_cache[1]

\* C1 (amended): the same for every such file whose stem, the name without
\* its final extension, holds a digit.
C1_UniformWidthStemDigit ==
    DoneNoReplace =>
        \A e \in disk :
            (/\ e.isfile
             /\ FoldedExt(e.name) # <<>>
             /\ FoldedExt(e.name) = majority_cache[1]
             /\ HasDigit(PathStem(e.name)))
                => FirstRunLen(e.name) = padding_cache[1]

\* C1 witness: a completed run without replacements that renamed a file and
\* left a majority file with a digit in its stem beside a wider one
C1_Witness ==
    /\ DoneNoReplace
    /\ reports # <<>>
    /\ \E e \in disk :
           /\ e.isfile /\ e.name # e.orig
           /\ FoldedExt(e.name) = majority_cache[1]
           /\ HasDigit(PathStem(e.name))
           /\ FirstRunLen(e.orig) < padding_cache[1]

\* C2 (as claimed): whatever run does, the directory keeps every file it
\* held at the start: the same number of entries, none replaced by another.
C2_NothingLost ==
    /\ Cardinality(disk) = Cardinality(disk0)
    /\ {e.orig : e \in disk} = {e.orig : e \in disk0}

RECURSIVE OkRenames(_)
\* the <<source, destination>> pairs of the rename calls that succeeded
OkRenames(log) ==
    IF log = <<>> THEN <<>>
    ELSE (IF Head(log)[3] = "ok" THEN << <<Head(log)[1], Head(log)[2]>> >>
          ELSE <<>>) \o OkRenames(Tail(log))

\* position of the scanned file of the given original name
FileIndex(name) == CHOOSE k \in 1..Len(files) : files[k].filename = name

\* C3: the reports are exactly the renames performed, one each, in the
\* folder's stored order, with the old and new name; a processed file that
\* does not match the majority extension, or whose computed name equals its
\* current name, was the source of no rename call and of no report.
C3_ReportsAreRenames ==
    pc \in {"run", "done", "crashed"} =>
        /\ reports = OkRenames(attempts)
        /\ \A r \in 1..Len(reports) :
               /\ \E k \in 1..Len(files) : files[k].filename = reports[r][1]
               /\ reports[r][2] = files[FileIndex(reports[r][1])].new_filename
               /\ \A q \in 1..(r - 1) :
                      FileIndex(reports[q][1]) < FileIndex(reports[r][1])
        /\ \A k \in 1..(idx - 1) :
               LET f == files[k]
                   matches == /\ FoldedExt(f.filename) # <<>>
                              /\ FoldedExt(f.filename) = majority_cache[1]
                   new == get_new_filename(f, padding_cache[1],
                                           config_replace)
               IN  (~matches \/ new = f.filename) =>
                       /\ \A a \in 1..Len(attempts) :
                              attempts[a][1] # f.filename
                       /\ \A r \in 1..Len(reports) :
                              reports[r][1] # f.filename
                       /\ f.new_filename = f.filename

\* C3 witness: a run that skipped a file of another extension, left a
\* matching file alone and renamed and reported a third
C3_Witness ==
    /\ pc = "done"
    /\ Len(reports) = 1
    /\ \E k \in 1..Len(files) :
           /\ FoldedExt(files[k].filename) # majority_cache[1]
    /\ \E k \in 1..Len(files) :
           /\ FoldedExt(files[k].filename) = majority_cache[1]
           /\ files[k].new_filename = files[k].filename

\* the run was aborted by a failing rename
RenameFailed ==
    /\ pc = "crashed"
    /\ attempts # <<>>
    /\ attempts[Len(attempts)][3] = "error"

\* C4 (as claimed): when a rename fails, the files renamed before it are
\* on disk under their new names, the files after it under their original
\* names, every report precedes the failure, and the current name recorded
\* for the failing file is its name on disk.
C4_AbortKeepsNames ==
    RenameFailed =>
        /\ \A k \in 1..(idx - 1) :
               \E e \in disk : /\ e.orig = files[k].filename
                               /\ e.name = files[k].new_filename
        /\ \A k \in (idx + 1)..Len(files) :
               \E e \in disk : /\ e.orig = files[k].filename
                               /\ e.name = files[k].filename
        /\ Len(reports) = Len(attempts) - 1
        /\ \E e \in disk : /\ e.orig = files[idx].filename
                            /\ e.name = files[idx].new_filename

\* the regular files of the directory as the program starts
Files0 == {e \in disk0 : e.isfile}

NoExtension0 == \A e \in Files0 : FoldedExt(e.name) = <<>>

\* C5 (as claimed): a directory without any file carrying an extension,
\* a directory without files included, never lets the program complete.
C5_NoExtensionNeverCompletes ==
    NoExtension0 => pc # "done"

\* C5 (amended): a directory holding at least one regular file and no file
\* with an extension never lets the program complete: the first read of
\* the majority extension fails and nothing is renamed.
C5_ExtensionlessFilesCrash ==
    (Files0 # {} /\ NoExtension0) =>
        /\ pc # "done"
        /\ attempts = <<>> /\ reports = <<>> /\ disk = disk0
        /\ majority_cache = <<>>
        /\ pc = "run" => idx = 1

\* C5 witness: the run has crashed on a scanned, non-empty folder of
\* extensionless files
C5_Witness ==
    /\ Files0 # {} /\ NoExtension0
    /\ pc = "crashed" /\ exitCode = 1
    /\ Len(files) = 2

\* number of '=' characters of a raw --replace value
EqualsCount(v) == Cardinality({i \in 1..Len(v) : v[i] = "="})

InvalidConfig ==
    \/ ~pathExists
    \/ \E i \in 1..Len(replaceArgs) : EqualsCount(replaceArgs[i]) # 1

\* C6: with a nonexistent path, or a --replace value that does not hold
\* exactly one '=', wherever it stands among the arguments, the program
\* only ever exits with status 1: nothing is scanned, nothing is renamed.
C6_InvalidConfigExits ==
    InvalidConfig =>
        /\ pc \in {"start", "exit"}
        /\ pc = "exit" => exitCode = 1
        /\ files = <<>> /\ attempts = <<>> /\ reports = <<>>
        /\ disk = disk0

\* C6 witness: exit 1 on a malformed value that follows a well-formed one,
\* with an existing path and a populated directory
C6_Witness ==
    /\ pc = "exit" /\ exitCode = 1
    /\ pathExists
    /\ Len(replaceArgs) = 2
    /\ EqualsCount(replaceArgs[1]) = 1
    /\ EqualsCount(replaceArgs[2]) > 1
    /\ disk # {}

\* number of scanned files of the given case-folded extension
ExtCount(e) ==
    Cardinality({k \in 1..Len(files) : FoldedExt(files[k].filename) = e})

\* position of the first scanned file of the given case-folded extension
ExtFirst(e) ==
    CHOOSE k \in 1..Len(files) :
        /\ FoldedExt(files[k].filename) = e
        /\ \A j \in 1..(k - 1) : FoldedExt(files[j].filename) # e

\* C10: the majority extension is a non-empty case-folded extension of the
\* scan that no other extension outnumbers, and every other extension with
\* the same count is first met later in scan order.
C10_MajorityIsFirstMostCommon ==
    majority_cache # <<>> =>
        LET m == majority_cache[1]
        IN  /\ m # <<>>
            /\ ExtCount(m) > 0
            /\ \A k \in 1..Len(files) :
                   LET e == FoldedExt(files[k].filename)
                   IN  (e # <<>> /\ e # m) =>
                           \/ ExtCount(e) < ExtCount(m)
                           \/ /\ ExtCount(e) = ExtCount(m)
                              /\ ExtFirst(m) < ExtFirst(e)

\* C10 witness: the majority was read on a scan where two extensions tie,
\* one of them spelt in both cases, and an extensionless file comes first
C10_Witness ==
    /\ majority_cache # <<>>
    /\ Len(files) = 3
    /\ FoldedExt(files[1].filename) = <<>>
    /\ FoldedExt(files[2].filename) # FoldedExt(files[3].filename)
    /\ FileExt(files[3]) # FoldedExt(files[3].filename)
    /\ majority_cache[1] = FoldedExt(files[2].filename)

----------------------------------------------------------------------------
(* add_padding called directly: SpecPad *)

PadChars == {"0", "7", "a", "."}

InitPad ==
    /\ arg_string \in SeqsUpTo(PadChars, MaxLen)
    /\ arg_padding \in 0..MaxPad
    /\ ret = <<>>
    /\ pc = "pad"
    /\ pathExists = TRUE
    /\ replaceArgs = <<>>
    /\ exitCode = -1
    /\ config_replace = <<>>
    /\ disk = {}
    /\ disk0 = {}
    /\ files = <<>>
    /\ majority_cache = <<>>
    /\ padding_cache = <<>>
    /\ idx = 0
    /\ reports = <<>>
    /\ stdout = <<>>
    /\ attempts = <<>>

\* one call  add_padding(string, padding)
PadCall ==
    /\ pc = "pad"
    /\ ret = <<>>
    /\ ret' = <<add_padding(arg_string, arg_padding)>>
    /\ UNCHANGED <<pathExists, replaceArgs, pc, exitCode, config_replace, disk,
                   disk0, files, majority_cache, padding_cache, idx, reports,
                   stdout, attempts, arg_string, arg_padding>>

NextPad == PadCall

SpecPad == InitPad /\ [][NextPad]_vars

\* C7: add_padding returns a name without digits unchanged; otherwise the
\* result is the name with max(0, W - len(body)) zero characters put right
\* before its first digit run: everything before the run, the run itself
\* and everything after it are kept as they are.
C7_PadShape ==
    ret # <<>> =>
        LET name == arg_string
            out == ret[1]
        IN  IF ~HasDigit(name) THEN out = name
            ELSE LET p == CHOOSE i \in 1..Len(name) :
                              /\ name[i] \in Digits
                              /\ \A j \in 1..(i - 1) : name[j] \notin Digits
                     n == FirstRunLen(name)
                     k == IF arg_padding > n THEN arg_padding - n ELSE 0
                 IN  /\ Len(out) = Len(name) + k
                     /\ \A i \in 1..(p - 1) : out[i] = name[i]
                     /\ \A i \in p..(p + k - 1) : out[i] = "0"
                     /\ \A i \in p..Len(name) : out[i + k] = name[i]

\* C7 witness: a name with a prefix, a first digit run shorter than the
\* padding and a later digit has been padded
C7_Witness ==
    /\ ret # <<>>
    /\ Len(arg_string) = 4
    /\ arg_string[1] \notin Digits
    /\ arg_string[2] \in Digits
    /\ arg_string[3] \notin Digits
    /\ arg_string[4] \in Digits
    /\ arg_padding = 3
    /\ Len(ret[1]) = 6

----------------------------------------------------------------------------
(* File.rename_to_pattern called directly on the files of a scan: SpecFile *)

\* replacement dicts handed to rename_to_pattern
ReplaceDicts == { <<>>, << <<<<"a">>, <<"1">>>> >> }

InitFile ==
    /\ disk \in Directories
    /\ disk0 = disk
    /\ \E listing \in Perms(NamesOf(disk)) : files = ListFiles(disk, listing)
    /\ files # <<>>
    /\ arg_padding \in 1..2
    /\ config_replace \in ReplaceDicts
    /\ pc = "file"
    /\ ret = <<>>
    /\ idx = 0
    /\ pathExists = TRUE
    /\ replaceArgs = <<>>
    /\ exitCode = -1
    /\ majority_cache = <<>>
    /\ padding_cache = <<>>
    /\ reports = <<>>
    /\ stdout = <<>>
    /\ attempts = <<>>
    /\ arg_string = <<>>

\* files[i].rename_to_pattern(padding, replace) returns False
FileRenameUnchanged ==
    \E i \in 1..Len(files) :
    /\ pc = "file"
    /\ get_new_filename(files[i], arg_padding, config_replace)
           = files[i].old_filename
    /\ idx' = i
    /\ ret' = <<"False">>
    /\ UNCHANGED <<pathExists, replaceArgs, pc, exitCode, config_replace, disk,
                   disk0, files, majority_cache, padding_cache, reports,
                   stdout, attempts, arg_string, arg_padding>>

\* files[i].rename_to_pattern(padding, replace) renames and returns True
FileRenameOk ==
    \E i \in 1..Len(files) :
    /\ pc = "file"
    /\ Len(attempts) < MaxCalls
    /\ LET file == files[i]
           new_filename == get_new_filename(file, arg_padding, config_replace)
       IN  /\ new_filename # file.old_filename
           /\ "ok" \in RenameOutcomes(disk, file.old_filename, new_filename)
           /\ files' = [files EXCEPT ![i].new_filename = new_filename]
           /\ disk' = Renamed(disk, file.old_filename, new_filename)
           /\ attempts' = Append(attempts,
                                 <<file.old_filename, new_filename, "ok">>)
    /\ idx' = i
    /\ ret' = <<"True">>
    /\ UNCHANGED <<pathExists, replaceArgs, pc, exitCode, config_replace,
                   disk0, majority_cache, padding_cache, reports, stdout,
                   arg_string, arg_padding>>

\* files[i].rename_to_pattern(padding, replace) raises from Path.rename
FileRenameError ==
    \E i \in 1..Len(files) :
    /\ pc = "file"
    /\ Len(attempts) < MaxCalls
    /\ LET file == files[i]
           new_filename == get_new_filename(file, arg_padding, config_replace)
       IN  /\ new_filename # file.old_filename
           /\ "error" \in RenameOutcomes(disk, file.old_filename,
                                          new_filename)
           /\ files' = [files EXCEPT ![i].new_filename = new_filename]
           /\ attempts' = Append(attempts,
                                 <<file.old_filename, new_filename, "error">>)
    /\ idx' = i
    /\ ret' = <<"OSError">>
    /\ UNCHANGED <<pathExists, replaceArgs, pc, exitCode, config_replace, disk,
                   disk0, majority_cache, padding_cache, reports, stdout,
                   arg_string, arg_padding>>

NextFile ==
    \/ FileRenameUnchanged
    \/ FileRenameOk
    \/ FileRenameError

SpecFile == InitFile /\ [][NextFile]_vars

\* C8 (as claimed): once a call of rename_to_pattern has renamed a File, a
\* further call on that File with the same padding and replacements makes
\* no filesystem call and returns False.
C8_SecondCallDoesNothing ==
    [][\A i \in 1..Len(files) :
          (/\ idx' = i
           /\ \E a \in 1..Len(attempts) :
                  /\ attempts[a][1] = files[i].old_filename
                  /\ attempts[a][3] = "ok")
              => (attempts' = attempts /\ disk' = disk /\ ret' = <<"False">>)
      ]_vars

----------------------------------------------------------------------------
(* A Folder scanned and read repeatedly: SpecFolder *)

\* get_target_folder has returned: the folder holds its first scan
InitFolder ==
    /\ disk \in Directories
    /\ disk0 = disk
    /\ \E listing \in Perms(NamesOf(disk)) : files = ListFiles(disk, listing)
    /\ majority_cache = <<>>
    /\ padding_cache = <<>>
    /\ pc = "folder"
    /\ ret = <<>>
    /\ idx = 0
    /\ pathExists = TRUE
    /\ replaceArgs = <<>>
    /\ exitCode = -1
    /\ config_replace = <<>>
    /\ reports = <<>>
    /\ stdout = <<>>
    /\ attempts = <<>>
    /\ arg_string = <<>>
    /\ arg_padding = 0

\* Folder.parse_contents: self.files is replaced, nothing else is touched.
\* os.listdir answers in any order, but in the order of the previous scan
\* when the directory holds the same files as then.
FolderParseContents ==
    /\ pc = "folder"
    /\ \E listing \in Perms(NamesOf(disk)) :
           LET scanned == ListFiles(disk, listing)
           IN  /\ {scanned[k].filename : k \in 1..Len(scanned)}
                      = {files[k].filename : k \in 1..Len(files)}
                  => \A k \in 1..Len(files) :
                         scanned[k].filename = files[k].filename
               /\ files' = scanned
    /\ ret' = <<>>
    /\ UNCHANGED <<pathExists, replaceArgs, pc, exitCode, config_replace, disk,
                   disk0, majority_cache, padding_cache, idx, reports, stdout,
                   attempts, arg_string, arg_padding>>

\* a read of Folder.majority that returns a value
FolderMajority ==
    /\ pc = "folder"
    /\ ReadMajority # <<>>
    /\ majority_cache' = ReadMajority
    /\ ret' = ReadMajority
    /\ UNCHANGED <<pathExists, replaceArgs, pc, exitCode, config_replace, disk,
                   disk0, files, padding_cache, idx, reports, stdout, attempts,
                   arg_string, arg_padding>>

\* a read of Folder.majority that raises IndexError: nothing is cached
FolderMajorityRaises ==
    /\ pc = "folder"
    /\ ReadMajority = <<>>
    /\ ret' = << <<"IndexError">> >>
    /\ UNCHANGED <<pathExists, replaceArgs, pc, exitCode, config_replace, disk,
                   disk0, files, majority_cache, padding_cache, idx, reports,
                   stdout, attempts, arg_string, arg_padding>>

\* a read of Folder.padding
FolderPadding ==
    /\ pc = "folder"
    /\ padding_cache' = ReadPadding
    /\ ret' = ReadPadding
    /\ UNCHANGED <<pathExists, replaceArgs, pc, exitCode, config_replace, disk,
                   disk0, files, majority_cache, idx, reports, stdout, attempts,
                   arg_string, arg_padding>>

\* another program creates an entry in the directory
EnvCreate ==
    /\ pc = "folder"
    /\ idx < MaxEnvChanges
    /\ Cardinality(disk) < MaxFiles
    /\ \E e \in Entries :
           /\ e.name \notin NamesOf(disk)
           /\ disk' = disk \cup {e}
    /\ idx' = idx + 1
    /\ UNCHANGED <<pathExists, replaceArgs, pc, exitCode, config_replace,
                   disk0, files, majority_cache, padding_cache, reports,
                   stdout, attempts, arg_string, arg_padding, ret>>

\* another program removes an entry of the directory
EnvRemove ==
    /\ pc = "folder"
    /\ idx < MaxEnvChanges
    /\ \E e \in disk : disk' = disk \ {e}
    /\ idx' = idx + 1
    /\ UNCHANGED <<pathExists, replaceArgs, pc, exitCode, config_replace,
                   disk0, files, majority_cache, padding_cache, reports,
                   stdout, attempts, arg_string, arg_padding, ret>>

NextFolder ==
    \/ FolderParseContents
    \/ FolderMajority
    \/ FolderMajorityRaises
    \/ FolderPadding
    \/ EnvCreate
    \/ EnvRemove

SpecFolder == InitFolder /\ [][NextFolder]_vars

\* C9 (as claimed): whatever scans and reads were made, a majority
\* extension or padding the folder holds is the one computed from the
\* entries of its latest scan.
C9_DerivedFollowLatestScan ==
    /\ majority_cache # <<>> => majority_cache = ComputeMajority(files)
    /\ padding_cache # <<>> => padding_cache = <<ComputePadding(files)>>

====
